---- MODULE Spec2Model ----
(***************************************************************************)
(* AntibioDeal: the two Streamlit calculators of antibiotic infusion       *)
(* regimens.                                                               *)
(*   dilutioner.py  "Policy A": stability + maximum concentration (mg/mL)  *)
(*   main.py        "Policy B": stability + reference ratio "X g dans Y ml"*)
(* Strings are sequences of one-character strings.  Doses are whole        *)
(* milligrams; every quotient of the handlers is kept exact (a numerator   *)
(* and a denominator), so IEEE rounding of the Python floats is not part   *)
(* of the model.                                                           *)
(***************************************************************************)
EXTENDS Integers, Sequences, FiniteSets, TLC

VARIABLES app, antibiotics, molecule, dose_24h, out

vars == <<app, antibiotics, molecule, dose_24h, out>>

(***************************************************************************)
(* Bounds of the model.                                                    *)
(***************************************************************************)
\* doses entered in the number_input: 0 .. MaxDoseMg milligrams
MaxDoseMg == 80
\* stability cells of the reference table: 0 .. MaxStability hours
MaxStability == 26

(***************************************************************************)
(* Characters and Python's str / int / float conversions.                  *)
(***************************************************************************)
DigitChars == <<"0", "1", "2", "3", "4", "5", "6", "7", "8", "9">>

IsDigit(c) == \E i \in 1..10 : DigitChars[i] = c

IsSpace(c) == c = " "

DigitVal(c) == (CHOOSE i \in 1..10 : DigitChars[i] = c) - 1

RECURSIVE Pow10(_)
Pow10(k) == IF k = 0 THEN 1 ELSE 10 * Pow10(k - 1)

\* str(n) of a non-negative int
RECURSIVE Str(_)
Str(n) == IF n < 10 THEN <<DigitChars[n + 1]>>
          ELSE Str(n \div 10) \o <<DigitChars[(n % 10) + 1]>>

\* int("123")
RECURSIVE ToInt(_)
ToInt(ds) == IF ds = <<>> THEN 0
             ELSE 10 * ToInt(SubSeq(ds, 1, Len(ds) - 1)) + DigitVal(ds[Len(ds)])

\* index of the first occurrence of character c in s, 0 when absent
RECURSIVE IndexOf(_, _, _)
IndexOf(s, c, i) == IF i > Len(s) THEN 0
                    ELSE IF s[i] = c THEN i ELSE IndexOf(s, c, i + 1)

\* s.replace(",", ".")
ReplaceComma(s) == [i \in 1..Len(s) |-> IF s[i] = "," THEN "." ELSE s[i]]

\* float("12") and float("12.5"): the exact value num/den
ParseFloat(s) ==
    LET p == IndexOf(s, ".", 1)
    IN  IF p = 0 THEN [num |-> ToInt(s), den |-> 1]
        ELSE [num |-> ToInt(SubSeq(s, 1, p - 1) \o SubSeq(s, p + 1, Len(s))),
              den |-> Pow10(Len(s) - p)]

(***************************************************************************)
(* The pieces of the regular expressions, matched as Python's re does.     *)
(***************************************************************************)
\* \d+ from position i (s[i] is a digit): the last index of the greedy run
RECURSIVE DigitRunEnd(_, _)
DigitRunEnd(s, i) == IF i + 1 <= Len(s) /\ IsDigit(s[i + 1])
                     THEN DigitRunEnd(s, i + 1) ELSE i

\* \s* from position i: the first index that is not white space
RECURSIVE SkipSpaces(_, _)
SkipSpaces(s, i) == IF i <= Len(s) /\ IsSpace(s[i])
                    THEN SkipSpaces(s, i + 1) ELSE i

\* a literal at position i
HasLit(s, i, lit) == /\ i >= 1
                     /\ i + Len(lit) - 1 <= Len(s)
                     /\ SubSeq(s, i, i + Len(lit) - 1) = lit

\* \d+(?:[seps]\d+)? from position i (s[i] is a digit): its last index
NumberEnd(s, i, seps) ==
    LET j == DigitRunEnd(s, i)
    IN  IF j + 2 <= Len(s) /\ s[j + 1] \in seps /\ IsDigit(s[j + 2])
        THEN DigitRunEnd(s, j + 2) ELSE j

\* the least element of a non-empty set of integers (Python's min, and the
\* leftmost match of re.search / re.findall(...)[0])
Least(S) == CHOOSE x \in S : \A y \in S : x <= y

(***************************************************************************)
(* Cells of the reference tables.  A cell is a string, or pandas' NaN for  *)
(* an empty cell.                                                          *)
(***************************************************************************)
NaN == <<"float-nan">>

\* str(cell)
PyStr(cell) == IF cell = NaN THEN <<"n", "a", "n">> ELSE cell

\* str.strip() == ''
IsBlank(s) == \A i \in 1..Len(s) : IsSpace(s[i])

\* a decimal literal: value n / 10^fd written with fd fractional digits
FmtDec(n, fd) ==
    IF fd = 0 THEN Str(n)
    ELSE LET fr == Str(n % Pow10(fd))
             pad == [i \in 1..(fd - Len(fr)) |-> "0"]
         IN  Str(n \div Pow10(fd)) \o <<".">> \o pad \o fr

(***************************************************************************)
(* dilutioner.py (Policy A)                                                *)
(***************************************************************************)
\* load_data: the variants kept for the molecule of one table row
LoadA(row) ==
    IF row.concentration # NaN /\ ~IsBlank(PyStr(row.concentration))
    THEN [M1 |-> [variants |-> <<row>>]]
    ELSE [M1 |-> [variants |-> <<>>]]

\* re.findall(r"(\d+)\s*h", s): does a match start at i
StabilityMatchAt(s, i) ==
    /\ IsDigit(s[i])
    /\ HasLit(s, SkipSpaces(s, DigitRunEnd(s, i) + 1), <<"h">>)

\* float(re.findall(r"(\d+)\s*h", str(data["stability"]))[0])
ParseStabilityA(cell) ==
    LET s == PyStr(cell)
        M == {i \in 1..Len(s) : StabilityMatchAt(s, i)}
    IN  IF M = {} THEN [ok |-> FALSE, val |-> 0]
        ELSE [ok |-> TRUE,
              val |-> ToInt(SubSeq(s, Least(M), DigitRunEnd(s, Least(M))))]

\* re.findall(r"(\d+(?:\.\d+)?)\s*mg/mL", s): does a match start at i
MgPerMlMatchAt(s, i) ==
    /\ IsDigit(s[i])
    /\ HasLit(s, SkipSpaces(s, NumberEnd(s, i, {"."}) + 1),
              <<"m", "g", "/", "m", "L">>)

\* float(re.findall(r"(\d+(?:\.\d+)?)\s*mg/mL", s)[0])
FindMgPerMl(s) ==
    LET M == {i \in 1..Len(s) : MgPerMlMatchAt(s, i)}
    IN  IF M = {} THEN [ok |-> FALSE, val |-> [num |-> 0, den |-> 1]]
        ELSE [ok |-> TRUE,
              val |-> ParseFloat(SubSeq(s, Least(M), NumberEnd(s, Least(M), {"."})))]

\* concentration_str.split("-")[1]   (concentration_str holds a "-")
SplitSecond(s) ==
    LET p == IndexOf(s, "-", 1)
        q == IndexOf(s, "-", p + 1)
    IN  SubSeq(s, p + 1, IF q = 0 THEN Len(s) ELSE q - 1)

\* max_val: the value after the "-" of a range, the single value otherwise
ParseMaxVal(cell) ==
    LET s == PyStr(cell)
    IN  IF IndexOf(s, "-", 1) # 0 THEN FindMgPerMl(SplitSecond(s))
        ELSE FindMgPerMl(s)

\* a variant of MinInfusions that rounds 24 / stability_hours up
MinInfusionsRoundedUp(stability_hours) ==
    (24 + stability_hours - 1) \div stability_hours

\* int(24 / stability_hours), stability_hours > 0
MinInfusions(stability_hours) == 24 \div stability_hours

\* a variant of FitsPSE that takes the syringe for 100 mL
FitsPSEIn100(dose, n, max_val) == dose * max_val.den <= max_val.num * n * 100

\* (dose / n * 1000) / 50 <= max_val : dose in mg, n infusions, 50 mL syringe
FitsPSE(dose, n, max_val) == dose * max_val.den <= max_val.num * n * 50

\* a variant of SplitRange that stops before 2 * min_infusions
SplitRangeExclusive(min_infusions) == (min_infusions + 1)..(min_infusions * 2 - 1)

\* range(min_infusions + 1, min_infusions * 2 + 1)
SplitRange(min_infusions) == (min_infusions + 1)..(min_infusions * 2)

\* the n appended to possible_infusions
PossibleInfusions(dose, stability_hours, min_infusions, max_val) ==
    {n \in SplitRange(min_infusions) :
        /\ 24 % n = 0
        /\ 24 <= stability_hours * n
        /\ FitsPSE(dose, n, max_val)}

CeilDiv(a, b) == (a + b - 1) \div b

\* a variant of PumpVolume that always moves to the next multiple of 10
PumpVolumeNextTen(dose, nb_infusion, max_val) ==
    (CeilDiv(dose * max_val.den, nb_infusion * max_val.num) \div 10 + 1) * 10

\* math.ceil(math.ceil(dose_per_infusion * 1000 / max_val) / 10) * 10
PumpVolume(dose, nb_infusion, max_val) ==
    CeilDiv(CeilDiv(dose * max_val.den, nb_infusion * max_val.num), 10) * 10

Raised(exc) == [kind |-> "exception", solver |-> TRUE, exc |-> exc]

PlanA(dose, stability_hours, max_val, min_infusions, nb, vol, mat) ==
    [kind |-> "plan", solver |-> TRUE,
     stability_hours |-> stability_hours, max_val |-> max_val,
     min_infusions |-> min_infusions, nb_infusion |-> nb,
     volume_dilution |-> vol, material |-> mat,
     \* int(hours_between) of freq_text
     hours |-> 24 \div nb,
     note |-> (nb > min_infusions)]

\* the else branch of the Calculate handler: try ... except (IndexError, ValueError)
SolveA(data, dose) ==
    LET st == ParseStabilityA(data.stability)
        mv == ParseMaxVal(data.concentration)
    IN  IF ~st.ok \/ ~mv.ok THEN [kind |-> "parse_error", solver |-> TRUE]
        ELSE IF st.val = 0 THEN Raised("ZeroDivisionError")
        ELSE LET min_infusions == MinInfusions(st.val)
             IN  IF min_infusions = 0 THEN Raised("ZeroDivisionError")
                 ELSE IF FitsPSE(dose, min_infusions, mv.val)
                 THEN PlanA(dose, st.val, mv.val, min_infusions,
                            min_infusions, 50, "PSE")
                 ELSE LET possible_infusions ==
                              PossibleInfusions(dose, st.val, min_infusions, mv.val)
                      IN  IF possible_infusions # {}
                          THEN PlanA(dose, st.val, mv.val, min_infusions,
                                     Least(possible_infusions), 50, "PSE")
                          ELSE IF mv.val.num = 0 THEN Raised("ZeroDivisionError")
                          ELSE PlanA(dose, st.val, mv.val, min_infusions,
                                     min_infusions,
                                     PumpVolume(dose, min_infusions, mv.val),
                                     "pompe")

\* a variant of DoseRejected that lets a dose of exactly 0 through
DoseRejectedBelowZero(dose) == dose < 0

\* the guards of the button handlers (both scripts)
DoseRejected(dose) == dose <= 0

\* one run of dilutioner.py; button: "Calculate" was pressed
RunA(store, mol, dose, button) ==
    IF mol \in DOMAIN store /\ store[mol].variants = <<>>
    THEN [kind |-> "script_error", solver |-> FALSE, exc |-> "IndexError"]
    ELSE IF ~button THEN [kind |-> "idle", solver |-> FALSE]
    ELSE IF mol \notin DOMAIN store THEN [kind |-> "not_found", solver |-> FALSE]
    ELSE IF DoseRejected(dose) THEN [kind |-> "invalid_dose", solver |-> FALSE]
    ELSE SolveA(store[mol].variants[1], dose)

(***************************************************************************)
(* main.py (Policy B)                                                      *)
(***************************************************************************)
\* load_data: str(NaN) is "nan", so only a blank string cell is skipped;
\* "stabilite" is the stability cell formatted with an "h" appended
LoadB(row) ==
    IF IsBlank(PyStr(row.dilution_pratique)) THEN <<>>
    ELSE [M1 |-> [stabilite |-> PyStr(row.stabilite) \o <<"h">>,
                  dilution_pratique |-> row.dilution_pratique,
                  duree_administration |-> PyStr(row.duree_administration)]]

\* float(re.findall(r"(\d+)", data["stabilite"])[0])
ParseStabilityB(s) ==
    LET M == {i \in 1..Len(s) : IsDigit(s[i])}
    IN  IF M = {} THEN [ok |-> FALSE, val |-> 0]
        ELSE [ok |-> TRUE,
              val |-> ToInt(SubSeq(s, Least(M), DigitRunEnd(s, Least(M))))]

Seps == {".", ","}

\* a literal at position k followed by \s*: the index that follows, 0 if absent
LitThenSpaces(s, k, lit) ==
    IF HasLit(s, k, lit) THEN SkipSpaces(s, k + Len(lit)) ELSE 0

\* after a number starting at i: \s* lit \s*, the index that follows
AfterLit(s, i, lit) ==
    LitThenSpaces(s, SkipSpaces(s, NumberEnd(s, i, Seps) + 1), lit)

\* (\d+(?:[.,]\d+)?)\s*ml at position v: v when it matches, 0 otherwise
VolumeGroupAt(s, v) ==
    IF /\ v >= 1
       /\ v <= Len(s)
       /\ IsDigit(s[v])
       /\ HasLit(s, SkipSpaces(s, NumberEnd(s, v, Seps) + 1), <<"m", "l">>)
    THEN v ELSE 0

\* dans\s*(\d+(?:[.,]\d+)?)\s*ml at position k (0: the match already failed)
DansAt(s, k) ==
    IF k = 0 THEN 0
    ELSE VolumeGroupAt(s, LitThenSpaces(s, k, <<"d", "a", "n", "s">>))

\* pattern 2, (\d+(?:[.,]\d+)?)\s*g\s*dans\s*(\d+(?:[.,]\d+)?)\s*ml, from
\* position i: the start of the volume group, 0 when there is no match
Pattern2At(s, i) ==
    IF ~(i >= 1 /\ i <= Len(s) /\ IsDigit(s[i])) THEN 0
    ELSE DansAt(s, AfterLit(s, i, <<"g">>))

\* pattern 2 must match at k, the start of group 2 of pattern 1
Group2At(s, k) == IF k # 0 /\ Pattern2At(s, k) # 0 THEN k ELSE 0

\* pattern 1 is (\d+(?:[.,]\d+)?)\s* a-grave \s* followed by pattern 2 (the
\* character a-grave is written "a-grave"): the start of group 2
Pattern1At(s, i) ==
    IF ~(i >= 1 /\ i <= Len(s) /\ IsDigit(s[i])) THEN 0
    ELSE Group2At(s, AfterLit(s, i, <<"a-grave">>))

\* float(group.replace(",", ".")) of the number that starts at i
Number(s, i) == ParseFloat(ReplaceComma(SubSeq(s, i, NumberEnd(s, i, Seps))))

\* max_val and vol_ref read at g, where "X g dans Y ml" starts
RatioAt(s, g) ==
    [ok |-> TRUE, max_val |-> Number(s, g), vol_ref |-> Number(s, Pattern2At(s, g))]

\* if match1: groups 2 and 3; elif match2: groups 1 and 2; else: not recognised
Groups(s, M1s, M2s) ==
    IF M1s # {} THEN RatioAt(s, Pattern1At(s, Least(M1s)))
    ELSE IF M2s # {} THEN RatioAt(s, Least(M2s))
    ELSE [ok |-> FALSE, max_val |-> [num |-> 0, den |-> 1],
          vol_ref |-> [num |-> 0, den |-> 1]]

\* match1 = re.search(pattern1, s), match2 = re.search(pattern2, s)
ParseDilution(s) ==
    Groups(s, {i \in 1..Len(s) : Pattern1At(s, i) # 0},
              {i \in 1..Len(s) : Pattern2At(s, i) # 0})

\* volume_dilution = dosage_infusion * vol_ref / max_val, in mL, exact
\* (dosage_infusion = dose_24h / nb_infusion grams, dose in mg)
VolumeDilution(dose, nb_infusion, max_val, vol_ref) ==
    [num |-> dose * vol_ref.num * max_val.den,
     den |-> 1000 * nb_infusion * max_val.num * vol_ref.den]

\* Python 3 round(p / q): to the nearest integer, a tie to the even one
PyRound(p, q) ==
    LET f == p \div q
        r == p % q
    IN  IF 2 * r < q THEN f
        ELSE IF 2 * r > q THEN f + 1
        ELSE IF f % 2 = 0 THEN f ELSE f + 1

\* int(round(volume_dilution / 10.0)) * 10
VolumeArrondi(volume) == PyRound(volume.num, volume.den * 10) * 10

\* .strip().upper() == "NA"
IsNA(s) ==
    LET a == SkipSpaces(s, 1)
        t == SubSeq(s, a, Len(s))
        n == IF t = <<>> THEN 0
             ELSE Least({k \in 0..Len(t) : \A j \in (k + 1)..Len(t) : IsSpace(t[j])})
        u == SubSeq(t, 1, n)
    IN  Len(u) = 2 /\ u[1] \in {"N", "n"} /\ u[2] \in {"A", "a"}

Materiel(duree, arrondi) ==
    IF IsNA(duree) THEN "IVL"
    ELSE IF arrondi <= 50 THEN "PSE" ELSE "pompe"

\* the else branch of the Calculer handler
SolveB(data, dose) ==
    LET st == ParseStabilityB(data.stabilite)
    IN  IF ~st.ok THEN [kind |-> "parse_error", solver |-> TRUE]
        ELSE IF st.val = 0 THEN Raised("ZeroDivisionError")
        ELSE LET nb_infusion == MinInfusions(st.val)
             IN  IF nb_infusion = 0 THEN Raised("ZeroDivisionError")
                 ELSE IF data.dilution_pratique = NaN THEN Raised("TypeError")
                 ELSE LET dil == ParseDilution(data.dilution_pratique)
                      IN  IF ~dil.ok THEN [kind |-> "parse_error", solver |-> TRUE]
                          ELSE IF dil.max_val.num = 0 THEN Raised("ZeroDivisionError")
                          ELSE LET volume == VolumeDilution(dose, nb_infusion,
                                                            dil.max_val, dil.vol_ref)
                                   arrondi == VolumeArrondi(volume)
                               IN  [kind |-> "plan", solver |-> TRUE,
                                    stability_hours |-> st.val,
                                    nb_infusion |-> nb_infusion,
                                    \* int(stability_hours) of freq_text
                                    hours |-> st.val,
                                    volume |-> volume,
                                    volume_dilution |-> arrondi,
                                    material |-> Materiel(data.duree_administration,
                                                          arrondi)]

\* one run of main.py; button: "Calculer" was pressed
RunB(store, mol, dose, button) ==
    IF ~button THEN [kind |-> "idle", solver |-> FALSE]
    ELSE IF mol \notin DOMAIN store THEN [kind |-> "not_found", solver |-> FALSE]
    ELSE IF DoseRejected(dose) THEN [kind |-> "invalid_dose", solver |-> FALSE]
    ELSE SolveB(store[mol], dose)

(***************************************************************************)
(* The reference tables the model ranges over (one row per table).         *)
(***************************************************************************)
MgMl == <<" ", "m", "g", "/", "m", "L">>

\* maximum concentrations, as <<n, fd>> for n / 10^fd mg/mL
ConcValues == {<<0, 0>>, <<5, 2>>, <<1, 1>>, <<25, 2>>, <<1, 0>>}

\* "B mg/mL"
SingleCell(b) == FmtDec(b[1], b[2]) \o MgMl

\* "A-B mg/mL"
RangeCell(a, b) == FmtDec(a[1], a[2]) \o <<"-">> \o FmtDec(b[1], b[2]) \o MgMl

ConcRanges == {<<<<5, 2>>, <<1, 1>>>>, <<<<1, 1>>, <<25, 2>>>>, <<<<25, 2>>, <<1, 0>>>>}

ConcentrationCells ==
    {SingleCell(b) : b \in ConcValues}
    \cup {RangeCell(r[1], r[2]) : r \in ConcRanges}
    \cup {NaN, <<" ">>, <<"1", " ", "m", "g", "/", "m", "l">>, <<"1", "-", "2">>}

\* what follows the number of hours in a stability cell
Suffixes == {<<"h">>, <<" ", "h">>, <<" ", "h", "o", "u", "r", "s">>}

StabilityCellsA ==
    {Str(n) \o <<"h">> : n \in 0..MaxStability}
    \cup {Str(8) \o <<" ", "h">>, Str(12) \o <<" ", "h", "o", "u", "r", "s">>}
    \cup {NaN, <<"7", " ", "d">>, <<"2", "4", ".", "5", "h">>}

RowsA == [stability : StabilityCellsA, concentration : ConcentrationCells]

\* the numeric stability column of main.py's table: ints, floats, empty
StabilityCellsB ==
    {Str(n) : n \in 0..MaxStability}
    \cup {NaN, <<"0", ".", "5">>, <<"2", "4", ".", "0">>}

GDans == <<" ", "g", " ", "d", "a", "n", "s", " ">>

DilutionCells ==
    {<<"1">> \o GDans \o <<"1", "0", "0", "0", " ", "m", "l">>,
     <<"1", " ", "a-grave", " ", "2">> \o GDans \o <<"1", "0", "0", " ", "m", "l">>,
     <<"0", ",", "5">> \o GDans \o <<"1", "0", "0", "m", "l">>,
     <<"0">> \o GDans \o <<"1", "0", "0", " ", "m", "l">>,
     <<"1">> \o GDans \o <<"1", "0", "0", " ", "m", "L">>,
     NaN, <<" ">>}

DureeCells == {<<" ", "n", "a", " ">>, <<"3", "0", " ", "m", "i", "n">>}

RowsB == [stabilite : StabilityCellsB, dilution_pratique : DilutionCells,
          duree_administration : DureeCells]

Doses == 0..MaxDoseMg

(***************************************************************************)
(* The two applications as state machines: a state is what one run of the  *)
(* script left on the page.                                                *)
(***************************************************************************)
\* antibiotics = load_data(): {} when the Excel file is missing
Stores(a) ==
    IF a = "dilutioner" THEN {<<>>} \cup {LoadA(r) : r \in RowsA}
    ELSE {<<>>} \cup {LoadB(r) : r \in RowsB}

\* st.selectbox(..., list(antibiotics.keys())): the first key, None if none
SelectBox(store) == IF DOMAIN store = {} THEN "None" ELSE "M1"

Run(a, store, mol, dose, button) ==
    IF a = "dilutioner" THEN RunA(store, mol, dose, button)
    ELSE RunB(store, mol, dose, button)

Init ==
    /\ app \in {"dilutioner", "main"}
    /\ antibiotics \in Stores(app)
    /\ molecule = SelectBox(antibiotics)
    /\ dose_24h = 0
    /\ out = Run(app, antibiotics, molecule, dose_24h, FALSE)

\* st.number_input: a new dose reruns the script, the button not pressed
SetDose(d) ==
    /\ d # dose_24h
    /\ dose_24h' = d
    /\ out' = Run(app, antibiotics, molecule, d, FALSE)
    /\ UNCHANGED <<app, antibiotics, molecule>>

\* dilutioner.py: st.button("Calculate")
Calculate ==
    /\ app = "dilutioner"
    /\ out' = Run(app, antibiotics, molecule, dose_24h, TRUE)
    /\ UNCHANGED <<app, antibiotics, molecule, dose_24h>>

\* main.py: st.button("Calculer")
Calculer ==
    /\ app = "main"
    /\ out' = Run(app, antibiotics, molecule, dose_24h, TRUE)
    /\ UNCHANGED <<app, antibiotics, molecule, dose_24h>>

Next ==
    \/ \E d \in Doses : SetDose(d)
    \/ Calculate
    \/ Calculer

Spec == Init /\ [][Next]_vars

(***************************************************************************)
(* What the tables state, read off the cells independently of the parsers. *)
(***************************************************************************)
PlanOfA == app = "dilutioner" /\ out.kind = "plan"

PlanOfB == app = "main" /\ out.kind = "plan"

\* the button was pressed and its handler ran
Pressed == out.kind \notin {"idle", "script_error"}

\* the variant a dilutioner.py plan was computed for
DataA == antibiotics[molecule].variants[1]

\* the cell states a stability of h hours
StatesHours(cell, h) == \E sfx \in Suffixes : cell = Str(h) \o sfx

\* the cell states b as its maximum concentration: "b mg/mL" or "a-b mg/mL"
StatesMax(cell, b) ==
    \/ cell = SingleCell(b)
    \/ \E r \in ConcRanges : r[2] = b /\ cell = RangeCell(r[1], b)

\* dose/n mg in vol mL is at most b mg/mL
ConcWithin(dose, n, vol, b) == dose * Pow10(b[2]) <= b[1] * n * vol

(***************************************************************************)
(* Properties.                                                             *)
(***************************************************************************)
\* C1: dilutioner.py, for a stability of 1..24 hours and a dose > 0, every
\* plan keeps the interval between infusions within the stability:
\* 24 / infusionCount <= stabilityHours.
C1_IntervalWithinStability ==
    PlanOfA =>
        \A h \in 1..24 :
            StatesHours(DataA.stability, h) => 24 <= h * out.nb_infusion

\* C2: dilutioner.py, for a stability of 1..24 hours and a dose > 0, the
\* infusion count of every plan divides 24, also when it is min_infusions
\* taken without the divisibility test of the split search.
C2_CountDivides24 ==
    PlanOfA =>
        \A h \in 1..24 :
            StatesHours(DataA.stability, h) => 24 % out.nb_infusion = 0

\* a plan whose count is min_infusions for a stability that does not divide 24
C2_Witness ==
    /\ PlanOfA
    /\ StatesHours(DataA.stability, 7)
    /\ out.nb_infusion = out.min_infusions
    /\ out.nb_infusion = 3

\* C3: dilutioner.py, the concentration of every plan, dosePerInfusion * 1000
\* / dilutionVolume, is at most the maximum the table states (the B of
\* "A-B mg/mL", the single value otherwise), in the 50 mL branches and in
\* the pump fallback.
C3_ConcentrationWithinMax ==
    PlanOfA =>
        \A b \in ConcValues :
            StatesMax(DataA.concentration, b) =>
                ConcWithin(dose_24h, out.nb_infusion, out.volume_dilution, b)

\* a pump plan for a range cell, at a concentration strictly below its B
C3_Witness ==
    /\ PlanOfA
    /\ out.material = "pompe"
    /\ \E r \in ConcRanges :
          /\ DataA.concentration = RangeCell(r[1], r[2])
          /\ ~ConcWithin(dose_24h, out.nb_infusion, out.volume_dilution, r[1])

C5_GuardsBeforeSolver ==
    Pressed =>
        /\ molecule \notin DOMAIN antibiotics
              => (out.kind = "not_found" /\ ~out.solver)
        /\ (molecule \in DOMAIN antibiotics /\ dose_24h <= 0)
              => (out.kind = "invalid_dose" /\ ~out.solver)
        /\ (out.kind = "plan" \/ out.solver)
              => (molecule \in DOMAIN antibiotics /\ dose_24h > 0)

\* the dose of exactly 0 rejected for a molecule of the store
C5_Witness ==
    /\ out.kind = "invalid_dose"
    /\ dose_24h = 0
    /\ molecule \in DOMAIN antibiotics

\* C6: both scripts, for a variant of the store and a dose > 0, the request
\* ends in a plan or in the reported parse error; no exception escapes.
C6_NoEscapingException ==
    (Pressed /\ molecule \in DOMAIN antibiotics /\ dose_24h > 0)
        => out.kind \in {"plan", "parse_error"}

\* C7: both scripts, the interval reported in the plan times the infusion
\* count is exactly 24 hours.
C7_ReportedIntervalTimesCount ==
    out.kind = "plan" => out.hours * out.nb_infusion = 24

\* C8: main.py, the reported volume is the multiple of 10 mL nearest to the
\* exact volume (at most 5 mL away), and an exact volume halfway between two
\* multiples of 10 is reported as the higher one.
C8_NearestTenHalfUp ==
    PlanOfB =>
        /\ out.volume_dilution % 10 = 0
        /\ out.volume_dilution * out.volume.den - out.volume.num
              <= 5 * out.volume.den
        /\ out.volume.num - out.volume_dilution * out.volume.den
              <= 5 * out.volume.den
        /\ out.volume.num % (10 * out.volume.den) = 5 * out.volume.den
              => out.volume_dilution * out.volume.den
                    = out.volume.num + 5 * out.volume.den

\* C9: dilutioner.py, when min_infusions in 50 mL exceeds the maximum
\* concentration, the plan takes the smallest n of min_infusions+1 ..
\* 2*min_infusions (inclusive) with 24 % n = 0, 24/n <= stabilityHours and a
\* concentration in 50 mL within the maximum, if there is one, in 50 mL on
\* the syringe pump; the count is never outside min_infusions ..
\* 2*min_infusions; the split note is given exactly when the count exceeds
\* min_infusions.
C9_SplitSearchSmallest ==
    PlanOfA =>
        \A h \in 1..MaxStability, b \in ConcValues :
            (StatesHours(DataA.stability, h) /\ StatesMax(DataA.concentration, b)) =>
                LET m == 24 \div h
                    feasible == {n \in (m + 1)..(2 * m) :
                                    /\ 24 % n = 0
                                    /\ 24 <= h * n
                                    /\ ConcWithin(dose_24h, n, 50, b)}
                IN  /\ out.nb_infusion \in m..(2 * m)
                    /\ out.note = (out.nb_infusion > m)
                    /\ (~ConcWithin(dose_24h, m, 50, b) /\ feasible # {}) =>
                          /\ out.nb_infusion = Least(feasible)
                          /\ out.volume_dilution = 50
                          /\ out.material = "PSE"
                    /\ out.nb_infusion > m => out.nb_infusion \in feasible

\* a split plan at the upper end of the range: 2 * min_infusions infusions
C9_Witness ==
    /\ PlanOfA
    /\ out.note
    /\ out.nb_infusion = 2 * out.min_infusions
    /\ out.material = "PSE"

\* C10: main.py, for a dose > 0 the reported volume is a strictly positive
\* multiple of 10 mL, and a syringe-pump plan has a volume of 10..50 mL.
C10_PositiveVolume ==
    PlanOfB =>
        /\ out.volume_dilution % 10 = 0
        /\ out.volume_dilution > 0
        /\ out.material = "PSE" => out.volume_dilution \in 10..50

====
